---------------------------- MODULE Spec2Model ----------------------------
(***************************************************************************)
(* The chat registry and the broadcast of the Telegram relay bot, in its   *)
(* two variants:                                                           *)
(*   "file"  src/api/index.js       in-memory array chatIds + /tmp JSON    *)
(*   "kv"    src/unnamed/part_000   comma-joined string under all_chats    *)
(* A JavaScript string is a sequence of one-character strings, so that     *)
(* includes, split, the removal regex, toString, parseInt and the JSON     *)
(* round trip are computed the way the code computes them.  An error       *)
(* message is a sequence of words.                                         *)
(***************************************************************************)
EXTENDS Integers, Sequences, FiniteSets, TLC

\* Number of handler slots the host runtime may have open at once.
NProcs == 2

Procs == 1..NProcs

\* Registration events are delivered while the all_chats value, grown by the
\* registrations in progress, stays within this many characters.
MaxStored == 8

\* Handlers the runtime enters in a behaviour in which it interleaves them.
MaxRuns == 3

\* msg.chat.id values delivered by the platform (groups have negative ids).
ChatIds == {1, 3, 13}

\* msg.chat.type values delivered by the platform.
Kinds == {"private", "group", "supergroup", "channel"}

\* req.body of POST /send-report: no message key, an empty message, a text.
Bodies == {[none |-> TRUE], [message |-> <<>>], [message |-> <<"m">>]}

\* err.message of a rejected bot.sendMessage, word by word.
ErrMsgs == { <<"chat", "not", "found">>,
             <<"bot", "was", "blocked", "by", "the", "user">>,
             <<"blocked", "by", "user">>,
             <<"ETIMEDOUT">> }

-----------------------------------------------------------------------------
(* JavaScript string and array primitives *)

\* String.prototype.includes / Array-of-words containment: t occurs in s
\* as a contiguous run.
Includes(s, t) ==
  \E i \in 0..(Len(s) - Len(t)) : SubSeq(s, i + 1, i + Len(t)) = t

\* Array.prototype.includes: x is an element of the array.
ArrIncludes(arr, x) == \E k \in 1..Len(arr) : arr[k] = x

Elems(arr) == {arr[k] : k \in 1..Len(arr)}

NoDup(arr) == \A j, k \in 1..Len(arr) : arr[j] = arr[k] => j = k

\* Array.prototype.filter(id => id !== x)
FilterOut(arr, x) == SelectSeq(arr, LAMBDA e : e # x)

DigitChar == <<"0", "1", "2", "3", "4", "5", "6", "7", "8", "9">>

RECURSIVE natToString(_)
natToString(n) ==
  IF n < 10 THEN <<DigitChar[n + 1]>>
  ELSE natToString(n \div 10) \o <<DigitChar[(n % 10) + 1]>>

\* Number.prototype.toString for an integer.
toString(n) == IF n < 0 THEN <<"-">> \o natToString(-n) ELSE natToString(n)

IsDigit(c) == \E d \in 1..10 : DigitChar[d] = c

DigitVal(c) == (CHOOSE d \in 1..10 : DigitChar[d] = c) - 1

RECURSIVE leadingDigits(_, _, _)
leadingDigits(s, i, acc) ==
  IF i > Len(s) \/ ~IsDigit(s[i]) THEN acc
  ELSE leadingDigits(s, i + 1, acc * 10 + DigitVal(s[i]))

\* parseInt(s): optional sign, then the longest run of digits; NaN when there
\* is none.
parseInt(s) ==
  LET neg   == Len(s) > 0 /\ s[1] = "-"
      first == IF Len(s) > 0 /\ s[1] \in {"-", "+"} THEN 2 ELSE 1
  IN  IF first > Len(s) \/ ~IsDigit(s[first])
      THEN [nan |-> TRUE, val |-> 0]
      ELSE [nan |-> FALSE,
            val |-> IF neg THEN 0 - leadingDigits(s, first, 0)
                    ELSE leadingDigits(s, first, 0)]

RECURSIVE splitFrom(_, _, _)
splitFrom(s, i, cur) ==
  IF i > Len(s) THEN <<cur>>
  ELSE IF s[i] = "," THEN <<cur>> \o splitFrom(s, i + 1, <<>>)
  ELSE splitFrom(s, i + 1, Append(cur, s[i]))

\* String.prototype.split(',')
split(s) == splitFrom(s, 1, <<>>)


\* Length of the match of the regular expression ,?x(,|$) that starts at
\* position i of s, 0 when there is none.  ",?" is greedy and x never starts
\* with a comma, so a comma at i has to be consumed; "(,|$)" prefers the comma.
matchLenAt(s, x, i) ==
  LET from == IF s[i] = "," THEN i + 1 ELSE i
      last == from + Len(x) - 1
  IN  IF last > Len(s) \/ SubSeq(s, from, last) # x THEN 0
      ELSE IF last < Len(s) /\ s[last + 1] = "," THEN last + 1 - i + 1
      ELSE IF last = Len(s) THEN last - i + 1
      ELSE 0

RECURSIVE replaceFrom(_, _, _)
replaceFrom(s, x, i) ==
  IF i > Len(s) THEN <<>>
  ELSE LET m == matchLenAt(s, x, i)
       IN  IF m > 0 THEN replaceFrom(s, x, i + m)
           ELSE <<s[i]>> \o replaceFrom(s, x, i + 1)

\* allIdsStr.replace(new RegExp(`,?${chatIdStr}(,|$)`, 'g'), '')
regexRemove(allIdsStr, chatIdStr) == replaceFrom(allIdsStr, chatIdStr, 1)

Quote == "\""

RECURSIVE joinLines(_, _)
joinLines(arr, k) ==
  IF k > Len(arr) THEN <<>>
  ELSE (IF k > 1 THEN <<",", "\n", " ", " ">> ELSE <<>>)
       \o <<Quote>> \o arr[k] \o <<Quote>> \o joinLines(arr, k + 1)

\* JSON.stringify(chatIds, null, 2) of an array of strings.
JSONstringify(arr) ==
  IF arr = <<>> THEN <<"[", "]">>
  ELSE <<"[", "\n", " ", " ">> \o joinLines(arr, 1) \o <<"\n", "]">>

IsJsonString(w) ==
  /\ Len(w) >= 2
  /\ w[1] = Quote
  /\ w[Len(w)] = Quote
  /\ \A k \in 2..(Len(w) - 1) : w[k] # Quote

\* JSON.parse on a text that is an array of strings, the empty object or
\* null (insignificant white space skipped).  The other texts it is applied
\* to are cut-off arrays, on which it throws.
JSONparse(text) ==
  LET t == SelectSeq(text, LAMBDA c : c \notin {" ", "\n"})
  IN  IF t = <<"{", "}">> THEN [ok |-> TRUE, kind |-> "object", val |-> <<>>]
      ELSE IF t = <<"n", "u", "l", "l">> THEN [ok |-> TRUE, kind |-> "null", val |-> <<>>]
      ELSE IF Len(t) < 2 \/ t[1] # "[" \/ t[Len(t)] # "]"
      THEN [ok |-> FALSE, kind |-> "none", val |-> <<>>]
      ELSE LET body  == SubSeq(t, 2, Len(t) - 1)
               parts == IF body = <<>> THEN <<>> ELSE split(body)
           IN  IF \A k \in 1..Len(parts) : IsJsonString(parts[k])
               THEN [ok   |-> TRUE,
                     kind |-> "array",
                     val  |-> [k \in 1..Len(parts) |->
                                 SubSeq(parts[k], 2, Len(parts[k]) - 1)]]
               ELSE [ok |-> FALSE, kind |-> "none", val |-> <<>>]

\* The content of CHATS_FILE: absent, or a text.
NoFile == [exists |-> FALSE, text |-> <<>>]

FileWith(text) == [exists |-> TRUE, text |-> text]

\* The load block at module start: the elements of the parsed file, or [] when
\* the file is absent or the try block throws (JSON.parse on a malformed
\* text, chatIds.length on null).
loadChats(f) ==
  IF f.exists
  THEN LET r == JSONparse(f.text) IN IF r.ok /\ r.kind # "null" THEN r.val ELSE <<>>
  ELSE <<>>

\* Whether the value the load block leaves in chatIds is an array: a parsed
\* object is kept as it is, since only a throw resets chatIds to [].
loadsArray(f) ==
  IF f.exists
  THEN LET r == JSONparse(f.text) IN ~(r.ok /\ r.kind = "object")
  ELSE TRUE

\* The test passes an empty message on.
missingMessageKeyOnly(body) == "message" \notin DOMAIN body

\* if (!message): the key is absent or its value is the empty string.
missingMessage(body) == "message" \notin DOMAIN body \/ body.message = <<>>

\* getAllChatIds of the KV variant, on the value kv.get returned.
kvGetAllChatIds(stored) ==
  LET allIdsStr == stored IN IF allIdsStr # <<>> THEN split(allIdsStr) ELSE <<>>

\* The value addToAllChats writes back for the value it read, or the value
\* itself when its includes test says the id is already there.
addToAllChatsValue(allIdsStr, chatId) ==
  IF ~Includes(allIdsStr, toString(chatId))
  THEN allIdsStr \o (IF allIdsStr # <<>> THEN <<",">> ELSE <<>>) \o toString(chatId)
  ELSE allIdsStr

\* The kind test of the new_chat_members handler (file) and of storeChatId.
allowedKind(chatType) ==
  chatType = "group" \/ chatType = "supergroup" \/ chatType = "private"

\* The pruning test of the catch block, file variant.
filePermanent(msg) ==
  Includes(msg, <<"chat", "not", "found">>) \/ Includes(msg, <<"blocked", "by", "user">>)

\* The pruning test of the catch block, KV variant.
kvPermanent(msg) ==
  Includes(msg, <<"chat", "not", "found">>) \/ Includes(msg, <<"blocked">>)

-----------------------------------------------------------------------------
(* State *)

VARIABLES
  variant,   \* "file" or "kv": the deployment's persistence backend
  conc,      \* whether the host runtime opens a handler while another awaits
  chatIds,   \* file variant: the module-level array
  file,      \* file variant: the content of CHATS_FILE
  kvAll,     \* KV variant: the value under all_chats ("" when unset)
  pc,        \* per handler slot: the await it is suspended at, or "idle"
  loc,       \* per handler slot: the handler's local variables
  last,      \* what the most recently completed handler did and answered
  writeFailed, \* some write to the backing store has failed so far
  isArray,   \* file variant: chatIds holds an array (not a parsed object)
  budget,    \* handlers the interleaving runtime may still enter
  pruned     \* interleaved runs: ids removed by a broadcast and not
             \* registered again since

vars == <<variant, conc, chatIds, file, kvAll, pc, loc, last, writeFailed,
          isArray, budget, pruned>>

Pending == <<"pending">>

Sent == <<"ok">>

NoBody == [none |-> TRUE]

NoResp == [status |-> 0, body |-> NoBody]

ErrorBody == [error |-> TRUE]

\* Beside the handler's own variables: the request body, the number of reads
\* of the registry it has made (reads), the ids whose registration completed
\* while it was in progress (seen) and whether no removal took place in that
\* time (clean).
NoLoc ==
  [op |-> "none", id |-> 0, kind |-> "none", arr |-> <<>>, aliased |-> FALSE,
   i |-> 0, sentCount |-> 0, allIdsStr |-> <<>>, pre |-> <<>>, log |-> <<>>,
   same |-> FALSE, body |-> NoBody, reads |-> 0, seen |-> {}, clean |-> TRUE]

NoLast ==
  [op |-> "none", id |-> 0, kind |-> "none", arr |-> <<>>, pre |-> <<>>,
   post |-> <<>>, log |-> <<>>, resp |-> NoResp, uncaught |-> FALSE,
   same |-> FALSE, body |-> NoBody, reads |-> 0, seen |-> {}, clean |-> TRUE]

\* What listAll / getAllChatIds returns in the current state.
Registry == IF variant = "file" THEN chatIds ELSE kvGetAllChatIds(kvAll)

\* The registry a fresh process would see.
Reloaded == IF variant = "file" THEN loadChats(file) ELSE kvGetAllChatIds(kvAll)

\* A handler may be entered when no other is suspended, or at any time when
\* the runtime interleaves handlers.
CanStart(p) ==
  /\ pc[p] = "idle"
  /\ IF conc THEN budget > 0 ELSE \A q \in Procs : pc[q] = "idle"

\* Entering a handler uses up one of the runs of an interleaved behaviour.
Entered == budget' = IF conc THEN budget - 1 ELSE budget

\* A registration event for chatId is being handled.
Reregistered(chatId) == pruned' = pruned \ {toString(chatId)}

\* A broadcast has completed the removal of chatIdStr while no registration
\* event for it is being handled.
Removed(chatIdStr) ==
  pruned' = IF conc /\ \A q \in Procs : ~(/\ loc[q].op \in {"members", "start"}
                                          /\ toString(loc[q].id) = chatIdStr)
            THEN pruned \cup {chatIdStr}
            ELSE pruned

\* The registration just before this one was a completed registration of the
\* same id, both with an allowed kind, and nothing else is in progress.
Repeats(chatId, chatType) ==
  /\ \A q \in Procs : pc[q] = "idle"
  /\ last.op \in {"members", "start"}
  /\ last.id = chatId
  /\ allowedKind(last.kind)
  /\ allowedKind(chatType)
  /\ ~last.uncaught

Begin(op, chatId, chatType) ==
  [NoLoc EXCEPT !.op = op, !.id = chatId, !.kind = chatType, !.pre = Registry,
                !.same = IF op = "report" THEN FALSE ELSE Repeats(chatId, chatType)]

\* The handler of slot p returns (or rejects): its slot is free again.  The
\* record of the last completed handler is dropped when the next one starts.
Finish(p, locs, l, post, resp, uncaught) ==
  /\ pc' = [pc EXCEPT ![p] = "idle"]
  /\ loc' = [q \in Procs |->
               IF q = p THEN NoLoc
               ELSE IF /\ l.op \in {"members", "start"}
                       /\ locs[q].op \in {"members", "start"}
                       /\ allowedKind(l.kind) /\ allowedKind(locs[q].kind)
                       /\ ~uncaught /\ l.clean
                       /\ ArrIncludes(post, toString(l.id))
                    THEN [locs[q] EXCEPT !.seen = @ \cup {toString(l.id)}]
                    ELSE locs[q]]
  /\ last' = [op |-> l.op, id |-> l.id, kind |-> l.kind, arr |-> l.arr,
              pre |-> l.pre, post |-> post, log |-> l.log, resp |-> resp,
              uncaught |-> uncaught, same |-> l.same, body |-> l.body,
              reads |-> l.reads, seen |-> l.seen, clean |-> l.clean]

\* Slot p has removed an identifier: the handlers in progress beside it have
\* seen a removal.
Disturbed(p, locs) ==
  [q \in Procs |-> IF q # p /\ locs[q].op # "none"
                   THEN [locs[q] EXCEPT !.clean = FALSE] ELSE locs[q]]

Attempt(chatIdStr) ==
  [id |-> chatIdStr, to |-> parseInt(chatIdStr), msg |-> Pending]

\* The send is not awaited: the loop goes on while the attempt is open.
SettleUnawaited(l, outcome) ==
  [l EXCEPT !.sentCount = IF outcome = Sent THEN l.sentCount + 1 ELSE l.sentCount]

\* The result of the awaited bot.sendMessage is recorded on the open attempt.
Settle(l, outcome) ==
  [l EXCEPT !.log = [l.log EXCEPT ![Len(l.log)].msg = outcome],
            !.sentCount = IF outcome = Sent THEN l.sentCount + 1 ELSE l.sentCount]

\* The loop without the res.json after it: the request is left unanswered.
ContinueUnanswered(p, locs, l, post, lst) ==
  IF l.i < Len(l.arr)
  THEN /\ pc' = [pc EXCEPT ![p] = "send"]
       /\ loc' = [locs EXCEPT ![p] =
                    [l EXCEPT !.i = l.i + 1,
                              !.log = Append(l.log, Attempt(l.arr[l.i + 1]))]]
       /\ last' = lst
  ELSE /\ pc' = [pc EXCEPT ![p] = "hung"]
       /\ loc' = [locs EXCEPT ![p] = l]
       /\ last' = lst

\* The loop with totalChats taken from the length read before the loop.
ContinueCountedBefore(p, locs, l, post, lst) ==
  IF l.i < Len(l.arr)
  THEN /\ pc' = [pc EXCEPT ![p] = "send"]
       /\ loc' = [locs EXCEPT ![p] =
                    [l EXCEPT !.i = l.i + 1,
                              !.log = Append(l.log, Attempt(l.arr[l.i + 1]))]]
       /\ last' = lst
  ELSE Finish(p, locs, l, post,
              [status |-> 200,
               body |-> [sentTo |-> l.sentCount, totalChats |-> Len(l.pre)]],
              FALSE)

\* The for-of loop steps to the next element and calls bot.sendMessage, or
\* the loop is over and res.json answers.
Continue(p, locs, l, post, lst) ==
  IF l.i < Len(l.arr)
  THEN /\ pc' = [pc EXCEPT ![p] = "send"]
       /\ loc' = [locs EXCEPT ![p] =
                    [l EXCEPT !.i = l.i + 1,
                              !.log = Append(l.log, Attempt(l.arr[l.i + 1]))]]
       /\ last' = lst
  ELSE Finish(p, locs, l, post,
              [status |-> 200,
               body |-> [sentTo |-> l.sentCount, totalChats |-> Len(l.arr)]],
              FALSE)

-----------------------------------------------------------------------------
(* File variant, src/api/index.js.  addChat, saveChats and removeChat are
   synchronous, so each runs inside the step of the handler that calls it;
   the only awaits are the bot.sendMessage calls.  The reply of /start is not
   awaited and touches no state. *)

\* addChat without its includes test.
addChatUnchecked(ids, chatId) == Append(ids, toString(chatId))

\* chatIds after addChat(chatId).
addChat(ids, chatId) ==
  LET chatIdStr == toString(chatId)
  IN  IF ~ArrIncludes(ids, chatIdStr) THEN Append(ids, chatIdStr) ELSE ids

\* chatIds after removeChat(chatIdStr).
removeChat(ids, chatIdStr) == FilterOut(ids, chatIdStr)

\* saveChats called before the array is updated: the last element is missing.
saveChatsStale(f, ids, writeOk) ==
  IF writeOk /\ Len(ids) > 0
  THEN FileWith(JSONstringify(SubSeq(ids, 1, Len(ids) - 1)))
  ELSE f

\* CHATS_FILE after saveChats(): rewritten, or left as it was when
\* writeFileSync throws (the error is caught and logged).
saveChats(f, ids, writeOk) == IF writeOk THEN FileWith(JSONstringify(ids)) ELSE f

\* chatIds.push mutates the array in place: a broadcast that still holds the
\* same array object sees the new element.
Pushed(ids) ==
  [q \in Procs |-> IF loc[q].aliased THEN [loc[q] EXCEPT !.arr = ids] ELSE loc[q]]

\* chatIds = chatIds.filter(...) binds a new array: running broadcasts keep
\* the old one.
Rebound == [q \in Procs |-> [loc[q] EXCEPT !.aliased = FALSE]]

\* On a chatIds that is not an array chatIds.includes throws a TypeError,
\* which leaves the async handler as a rejection nothing catches.
FileNewChatMembers(p, chatId, chatType) ==
  /\ variant = "file"
  /\ CanStart(p)
  /\ IF allowedKind(chatType) /\ ~isArray
     THEN /\ Finish(p, loc, Begin("members", chatId, chatType), chatIds, NoResp, TRUE)
          /\ UNCHANGED <<chatIds, file, writeFailed>>
     ELSE \E writeOk \in BOOLEAN :
       LET ids == IF allowedKind(chatType) THEN addChat(chatIds, chatId) ELSE chatIds
       IN  /\ chatIds' = ids
           /\ file' = IF ids # chatIds THEN saveChats(file, ids, writeOk) ELSE file
           /\ writeFailed' = (writeFailed \/ (ids # chatIds /\ ~writeOk))
           /\ pc' = [pc EXCEPT ![p] = "welcome"]
           /\ loc' = [Pushed(ids) EXCEPT ![p] = Begin("members", chatId, chatType)]
           /\ last' = NoLast
  /\ Entered
  /\ Reregistered(chatId)
  /\ UNCHANGED <<variant, conc, kvAll, isArray>>

\* The awaited welcome message is sent or fails; its failure is caught.
FileWelcomeDone(p) ==
  /\ variant = "file"
  /\ pc[p] = "welcome"
  /\ Finish(p, loc, loc[p], chatIds, NoResp, FALSE)
  /\ UNCHANGED <<variant, conc, chatIds, file, kvAll, writeFailed,
                 isArray, budget, pruned>>

FileStart(p, chatId, chatType) ==
  /\ variant = "file"
  /\ CanStart(p)
  /\ IF ~isArray
     THEN /\ Finish(p, loc, Begin("start", chatId, chatType), chatIds, NoResp, TRUE)
          /\ UNCHANGED <<chatIds, file, writeFailed>>
     ELSE \E writeOk \in BOOLEAN :
       LET ids == addChat(chatIds, chatId)
       IN  /\ chatIds' = ids
           /\ file' = IF ids # chatIds THEN saveChats(file, ids, writeOk) ELSE file
           /\ writeFailed' = (writeFailed \/ (ids # chatIds /\ ~writeOk))
           /\ Finish(p, Pushed(ids), Begin("start", chatId, chatType), ids, NoResp, FALSE)
  /\ Entered
  /\ Reregistered(chatId)
  /\ UNCHANGED <<variant, conc, kvAll, isArray>>

\* On a chatIds that is not an array chatIdsArray.length === 0 is false and
\* the for-of throws a TypeError, which the outer catch answers with 500.
FileSendReport(p, body) ==
  /\ variant = "file"
  /\ CanStart(p)
  /\ LET l == [Begin("report", 0, "none") EXCEPT !.body = body]
     IN  IF missingMessage(body)
         THEN Finish(p, loc, l, chatIds, [status |-> 400, body |-> ErrorBody], FALSE)
         ELSE LET chatIdsArray == chatIds
                  r == [l EXCEPT !.reads = 1]
              IN  IF ~isArray
                  THEN Finish(p, loc, r, chatIds,
                              [status |-> 500, body |-> ErrorBody], FALSE)
                  ELSE IF Len(chatIdsArray) = 0
                  THEN Finish(p, loc, r, chatIds,
                              [status |-> 200,
                               body |-> [sentTo |-> 0, totalChats |-> 0]], FALSE)
                  ELSE Continue(p, loc,
                                [r EXCEPT !.arr = chatIdsArray, !.aliased = TRUE],
                                chatIds, NoLast)
  /\ Entered
  /\ UNCHANGED <<variant, conc, chatIds, file, kvAll, writeFailed, isArray, pruned>>

FileSendDone(p, outcome) ==
  /\ variant = "file"
  /\ pc[p] = "send"
  /\ \E writeOk \in BOOLEAN :
       LET l     == Settle(loc[p], outcome)
           prune == outcome # Sent /\ filePermanent(outcome)
           ids   == IF prune THEN removeChat(chatIds, l.arr[l.i]) ELSE chatIds
           locs  == IF prune THEN Disturbed(p, Rebound) ELSE loc
       IN  /\ chatIds' = ids
           /\ file' = IF prune THEN saveChats(file, ids, writeOk) ELSE file
           /\ writeFailed' = (writeFailed \/ (prune /\ ~writeOk))
           /\ Continue(p, locs, [l EXCEPT !.aliased = locs[p].aliased], ids, last)
           /\ IF prune THEN Removed(l.arr[l.i]) ELSE pruned' = pruned
  /\ UNCHANGED <<variant, conc, kvAll, isArray, budget>>

-----------------------------------------------------------------------------
(* KV variant, src/unnamed/part_000.  Every kv.get and kv.set is awaited and
   may reject; the value stored under chat:<id> is never read back and is
   not kept. *)

\* The longest all_chats value any handler holds or the store keeps.
LongestHeld ==
  LET lens == {Len(kvAll)} \cup {Len(loc[q].allIdsStr) : q \in Procs}
  IN  CHOOSE n \in lens : \A m \in lens : m <= n

\* The characters one registration appends at most: a comma and the id.
Widest ==
  LET lens == {Len(toString(c)) : c \in ChatIds}
  IN  1 + CHOOSE n \in lens : \A m \in lens : m <= n

Registering == {q \in Procs : loc[q].op \in {"members", "start"}}

HasRoom == LongestHeld + Widest * (Cardinality(Registering) + 1) <= MaxStored

\* Both event handlers: storeChatId awaits kv.set only for an allowed kind,
\* then addToAllChats runs whatever the kind.
KvRegister(p, op, chatId, chatType) ==
  /\ variant = "kv"
  /\ CanStart(p)
  /\ HasRoom
  /\ pc' = [pc EXCEPT ![p] = IF allowedKind(chatType) THEN "storeSet" ELSE "addGet"]
  /\ loc' = [loc EXCEPT ![p] = Begin(op, chatId, chatType)]
  /\ last' = NoLast
  /\ Entered
  /\ Reregistered(chatId)
  /\ UNCHANGED <<variant, conc, chatIds, file, kvAll, writeFailed, isArray>>

KvNewChatMembers(p, chatId, chatType) == KvRegister(p, "members", chatId, chatType)

KvStart(p, chatId, chatType) == KvRegister(p, "start", chatId, chatType)

\* storeChatId: await kv.set(`chat:${chatId}`, ...)
KvStoreSet(p, kvOk) ==
  /\ variant = "kv"
  /\ pc[p] = "storeSet"
  /\ IF kvOk
     THEN /\ pc' = [pc EXCEPT ![p] = "addGet"]
          /\ UNCHANGED <<loc, last>>
     ELSE Finish(p, loc, loc[p], Registry, NoResp, TRUE)
  /\ writeFailed' = (writeFailed \/ ~kvOk)
  /\ UNCHANGED <<variant, conc, chatIds, file, kvAll, isArray, budget, pruned>>

\* addToAllChats: await kv.get, then the includes test.
KvAddGet(p, kvOk) ==
  /\ variant = "kv"
  /\ pc[p] = "addGet"
  /\ IF ~kvOk
     THEN Finish(p, loc, loc[p], Registry, NoResp, TRUE)
     ELSE LET allIdsStr == addToAllChatsValue(kvAll, loc[p].id)
              l == [loc[p] EXCEPT !.reads = @ + 1]
          IN  IF allIdsStr # kvAll
              THEN /\ pc' = [pc EXCEPT ![p] = "addSet"]
                   /\ loc' = [loc EXCEPT ![p] = [l EXCEPT !.allIdsStr = allIdsStr]]
                   /\ last' = last
              ELSE Finish(p, loc, l, Registry, NoResp, FALSE)
  /\ UNCHANGED <<variant, conc, chatIds, file, kvAll, writeFailed,
                 isArray, budget, pruned>>

\* addToAllChats: await kv.set(allChatsKey, allIdsStr)
KvAddSet(p, kvOk) ==
  /\ variant = "kv"
  /\ pc[p] = "addSet"
  /\ kvAll' = IF kvOk THEN loc[p].allIdsStr ELSE kvAll
  /\ Finish(p, loc, loc[p], kvGetAllChatIds(kvAll'), NoResp, ~kvOk)
  /\ writeFailed' = (writeFailed \/ ~kvOk)
  /\ UNCHANGED <<variant, conc, chatIds, file, isArray, budget, pruned>>

KvSendReport(p, body) ==
  /\ variant = "kv"
  /\ CanStart(p)
  /\ LET l == [Begin("report", 0, "none") EXCEPT !.body = body]
     IN  IF missingMessage(body)
         THEN Finish(p, loc, l, Registry, [status |-> 400, body |-> ErrorBody], FALSE)
         ELSE /\ pc' = [pc EXCEPT ![p] = "listGet"]
              /\ loc' = [loc EXCEPT ![p] = l]
              /\ last' = NoLast
  /\ Entered
  /\ UNCHANGED <<variant, conc, chatIds, file, kvAll, writeFailed, isArray, pruned>>

\* const chatIds = await getAllChatIds(); a rejection reaches the outer catch.
KvListGet(p, kvOk) ==
  /\ variant = "kv"
  /\ pc[p] = "listGet"
  /\ IF ~kvOk
     THEN Finish(p, loc, loc[p], Registry, [status |-> 500, body |-> ErrorBody], FALSE)
     ELSE LET snapshot == kvGetAllChatIds(kvAll)
              l == [loc[p] EXCEPT !.reads = @ + 1]
          IN  IF Len(snapshot) = 0
              THEN Finish(p, loc, l, Registry,
                          [status |-> 200, body |-> [sentTo |-> 0]], FALSE)
              ELSE Continue(p, loc, [l EXCEPT !.arr = snapshot], Registry, last)
  /\ UNCHANGED <<variant, conc, chatIds, file, kvAll, writeFailed,
                 isArray, budget, pruned>>

KvSendDone(p, outcome) ==
  /\ variant = "kv"
  /\ pc[p] = "send"
  /\ LET l == Settle(loc[p], outcome)
     IN  IF outcome # Sent /\ kvPermanent(outcome)
         THEN /\ pc' = [pc EXCEPT ![p] = "rmGet"]
              /\ loc' = [loc EXCEPT ![p] = l]
              /\ last' = last
         ELSE Continue(p, loc, l, Registry, last)
  /\ UNCHANGED <<variant, conc, chatIds, file, kvAll, writeFailed,
                 isArray, budget, pruned>>

\* removeFromAllChats: await kv.get, then the regex replace; a rejection
\* leaves the inner catch block and reaches the outer catch.
KvRemoveGet(p, kvOk) ==
  /\ variant = "kv"
  /\ pc[p] = "rmGet"
  /\ IF ~kvOk
     THEN Finish(p, loc, loc[p], Registry, [status |-> 500, body |-> ErrorBody], FALSE)
     ELSE /\ pc' = [pc EXCEPT ![p] = "rmSet"]
          /\ loc' = [loc EXCEPT ![p] =
                       [loc[p] EXCEPT !.reads = @ + 1,
                                      !.allIdsStr =
                                        regexRemove(kvAll, loc[p].arr[loc[p].i])]]
          /\ last' = last
  /\ UNCHANGED <<variant, conc, chatIds, file, kvAll, writeFailed,
                 isArray, budget, pruned>>

\* removeFromAllChats: await kv.set(allChatsKey, allIdsStr || '')
KvRemoveSet(p, kvOk) ==
  /\ variant = "kv"
  /\ pc[p] = "rmSet"
  /\ kvAll' = IF kvOk THEN loc[p].allIdsStr ELSE kvAll
  /\ IF ~kvOk
     THEN /\ Finish(p, loc, loc[p], kvGetAllChatIds(kvAll'),
                    [status |-> 500, body |-> ErrorBody], FALSE)
          /\ pruned' = pruned
     ELSE /\ Continue(p, Disturbed(p, loc), loc[p], kvGetAllChatIds(kvAll'), last)
          /\ Removed(loc[p].arr[loc[p].i])
  /\ writeFailed' = (writeFailed \/ ~kvOk)
  /\ UNCHANGED <<variant, conc, chatIds, file, isArray, budget>>

-----------------------------------------------------------------------------
(* Specification *)

\* What an earlier run of the process may have left in the backing store.
InitStored == {<<>>, <<toString(13)>>}

\* A CHATS_FILE that is not the JSON text of an array of strings: a truncated
\* write (not JSON), an object, null.
Malformed ==
  {<<"[", "\n", " ", " ", Quote, "1", Quote>>,
   <<"{", "}">>,
   <<"n", "u", "l", "l">>}

InitIdle ==
  /\ chatIds = loadChats(file)
  /\ isArray = loadsArray(file)
  /\ pc = [p \in Procs |-> "idle"]
  /\ loc = [p \in Procs |-> NoLoc]
  /\ last = NoLast
  /\ writeFailed = FALSE
  /\ pruned = {}

InitCommon ==
  /\ variant \in {"file", "kv"}
  /\ \E ids \in InitStored :
       /\ file \in (IF variant = "file" /\ ids = <<>> THEN {NoFile} ELSE {})
                   \cup (IF variant = "file" THEN {FileWith(JSONstringify(ids))} ELSE {NoFile})
       /\ kvAll \in (IF variant = "kv" /\ ids # <<>> THEN {ids[1]} ELSE {<<>>})
  /\ InitIdle

\* Handlers run one after the other.
Init == InitCommon /\ conc = FALSE /\ budget = 0

\* The runtime enters handlers while others are suspended at an await.
InitConc == InitCommon /\ conc = TRUE /\ budget = MaxRuns

\* The file variant starts with CHATS_FILE missing or malformed.
InitLoad ==
  /\ variant = "file"
  /\ file \in {NoFile} \cup {FileWith(t) : t \in Malformed}
  /\ kvAll = <<>>
  /\ InitIdle
  /\ conc = FALSE
  /\ budget = 0

FileNext(p, kinds, outcomes) ==
  \/ \E chatId \in ChatIds, chatType \in kinds :
       \/ FileNewChatMembers(p, chatId, chatType)
       \/ FileStart(p, chatId, chatType)
  \/ FileWelcomeDone(p)
  \/ \E body \in Bodies : FileSendReport(p, body)
  \/ \E outcome \in outcomes : FileSendDone(p, outcome)

KvNext(p, kinds, outcomes, oks) ==
  \/ \E chatId \in ChatIds, chatType \in kinds :
       \/ KvNewChatMembers(p, chatId, chatType)
       \/ KvStart(p, chatId, chatType)
  \/ \E body \in Bodies : KvSendReport(p, body)
  \/ \E outcome \in outcomes : KvSendDone(p, outcome)
  \/ \E kvOk \in oks :
       \/ KvStoreSet(p, kvOk)
       \/ KvAddGet(p, kvOk)
       \/ KvAddSet(p, kvOk)
       \/ KvListGet(p, kvOk)
       \/ KvRemoveGet(p, kvOk)
       \/ KvRemoveSet(p, kvOk)

Next ==
  \E p \in Procs :
    \/ FileNext(p, Kinds, {Sent} \cup ErrMsgs)
    \/ KvNext(p, Kinds, {Sent} \cup ErrMsgs, BOOLEAN)

NextFile == \E p \in Procs : FileNext(p, Kinds, {Sent} \cup ErrMsgs)

\* Interleaved runs draw one allowed and one filtered kind, and a success, a
\* permanent and a transient failure.
ConcKinds == {"private", "channel"}

ConcOutcomes == {Sent, <<"chat", "not", "found">>, <<"ETIMEDOUT">>}

NextConc ==
  \E p \in Procs :
    \/ FileNext(p, ConcKinds, ConcOutcomes)
    \/ KvNext(p, ConcKinds, ConcOutcomes, BOOLEAN)

Spec == Init /\ [][Next]_vars

SpecLoad == InitLoad /\ [][NextFile]_vars

SpecConc == InitConc /\ [][NextConc]_vars

\* The awaited call handler p is suspended at completes or fails.
AwaitDone(p) ==
  \/ FileWelcomeDone(p)
  \/ \E outcome \in ConcOutcomes :
       \/ FileSendDone(p, outcome)
       \/ KvSendDone(p, outcome)
  \/ \E kvOk \in BOOLEAN :
       \/ KvStoreSet(p, kvOk)
       \/ KvAddGet(p, kvOk)
       \/ KvAddSet(p, kvOk)
       \/ KvListGet(p, kvOk)
       \/ KvRemoveGet(p, kvOk)
       \/ KvRemoveSet(p, kvOk)

\* Interleaved handlers whose every outbound send and every persistence call
\* eventually completes or fails.
SpecLive == InitConc /\ [][NextConc]_vars /\ \A p \in Procs : WF_vars(AwaitDone(p))

-----------------------------------------------------------------------------
(* Properties.  They read the record "last" of the handler that has just
   completed: the registry when it was entered (pre) and when it returned
   (post), its send attempts (log) and its HTTP response (resp). *)

Registered(l) == l.op \in {"members", "start"}

Broadcast(l) == l.op = "report"

\* The pruning test of the variant in force.
Permanent(msg) == IF variant = "file" THEN filePermanent(msg) ELSE kvPermanent(msg)

\* The identifiers whose send failed with an error the variant prunes on.
Pruned(l) ==
  {l.log[k].id : k \in {j \in 1..Len(l.log) :
                          l.log[j].msg \notin {Sent, Pending} /\ Permanent(l.log[j].msg)}}

Succeeded(l) == {k \in 1..Len(l.log) : l.log[k].msg = Sent}

\* C1: a registration event for x with an allowed kind, handled to normal
\* completion from a registry that does not hold x as an element, leaves x an
\* element of the registry.
C1_RegistrationMakesMember ==
  (/\ Registered(last)
   /\ allowedKind(last.kind)
   /\ ~last.uncaught
   /\ ~ArrIncludes(last.pre, toString(last.id)))
  => ArrIncludes(last.post, toString(last.id))

\* C2: a broadcast answered 200 leaves exactly the previous elements other
\* than the pruned ones, each unchanged and in the same relative order.
C2_RemovalTouchesOnlyTarget ==
  (Broadcast(last) /\ last.resp.status = 200)
  => last.post = SelectSeq(last.pre, LAMBDA e : e \notin Pruned(last))

\* C3: a registration event whose chat kind is outside the allowed set never
\* changes the registry.
C3_KindFiltering ==
  (Registered(last) /\ ~allowedKind(last.kind)) => last.post = last.pre

\* C4: handling the registration of (x, k), k allowed, right after a completed
\* registration of x leaves the registry as the first handling left it.
C4_IdempotentRegistration ==
  (Registered(last) /\ last.same) => last.post = last.pre

C4_Witness ==
  /\ Registered(last)
  /\ last.same
  /\ ~last.uncaught
  /\ ArrIncludes(last.post, toString(last.id))
  /\ Len(last.post) >= 2

\* C5: in every reachable state the registry lists no identifier twice.
C5_NoDuplicates == NoDup(Registry)

\* C6: a broadcast over a registry of N identifiers that is answered 200 has
\* made exactly N send attempts, one per identifier, and its body carries
\* sentTo = the number of successful sends and totalChats = N.
C6_BroadcastAccounting ==
  (Broadcast(last) /\ last.resp.status = 200)
  => /\ Len(last.log) = Len(last.pre)
     /\ \A k \in 1..Len(last.log) :
          /\ last.log[k].id = last.pre[k]
          /\ last.log[k].to = parseInt(last.pre[k])
          /\ last.log[k].msg # Pending
     /\ DOMAIN last.resp.body = {"sentTo", "totalChats"}
     /\ last.resp.body.sentTo = Cardinality(Succeeded(last))
     /\ last.resp.body.totalChats = Len(last.pre)

\* C7: after a broadcast answered 200, an identifier whose send failed with a
\* message containing "chat not found" or "blocked by user" is no longer in
\* the registry, and one whose send succeeded or failed otherwise still is.
C7_PermanentFailurePruning ==
  (Broadcast(last) /\ last.resp.status = 200)
  => \A k \in 1..Len(last.log) :
       IF last.log[k].msg # Sent /\ filePermanent(last.log[k].msg)
       THEN ~ArrIncludes(last.post, last.log[k].id)
       ELSE ArrIncludes(last.post, last.log[k].id)

\* C8: a broadcast that entered its send loop attempts every destination of
\* its snapshot and answers 200, whatever failed on the way.
C8_LoopNeverAborts ==
  (Broadcast(last) /\ Len(last.arr) > 0)
  => /\ last.resp.status = 200
     /\ Len(last.log) = Len(last.arr)
     /\ \A k \in 1..Len(last.log) : last.log[k].msg # Pending

\* C9: as long as every write to the backing store has succeeded, a fresh
\* process loading the persisted representation obtains exactly the
\* membership the registry holds.
C9_RoundTripPersistence ==
  ~writeFailed => Elems(Reloaded) = Elems(Registry)

C9_Witness ==
  /\ variant = "file"
  /\ ~writeFailed
  /\ Broadcast(last)
  /\ Pruned(last) # {}
  /\ Len(chatIds) >= 2
  /\ file.exists
  /\ loadChats(file) = chatIds

\* C10: a failing read or write of the backing store never surfaces: a
\* registration handler does not reject, a broadcast that entered its loop
\* answers 200, and in the file variant memory reflects the mutation.
C10_PersistenceFailuresSwallowed ==
  /\ Registered(last) => ~last.uncaught
  /\ (Broadcast(last) /\ Len(last.arr) > 0) => last.resp.status = 200
  /\ (variant = "file" /\ Registered(last) /\ allowedKind(last.kind))
       => ArrIncludes(last.post, toString(last.id))
  /\ (variant = "file" /\ Broadcast(last))
       => \A y \in Pruned(last) : ~ArrIncludes(last.post, y)

\* The step of slot p is the pruning that follows a permanent-class failure
\* of the send to x: removeChat inside the catch block of the file variant,
\* the awaited kv.set of removeFromAllChats in the KV variant.
PruningOf(p, x) ==
  /\ loc[p].op = "report"
  /\ loc[p].i > 0
  /\ loc[p].arr[loc[p].i] = x
  /\ IF variant = "file"
     THEN /\ pc[p] = "send"
          /\ LET msg == IF pc'[p] = "idle" THEN last'.log[loc[p].i].msg
                                           ELSE loc'[p].log[loc[p].i].msg
             IN  msg # Sent /\ filePermanent(msg)
     ELSE pc[p] = "rmSet"

\* C11: an identifier that is in the registry is in the registry after the
\* next step too, unless that step is the pruning that follows a permanent
\* failure of the send to that same identifier.
C11_OnlyOwnFailureDestroys ==
  [][\A x \in Elems(Registry) :
       x \in Elems(Registry') \/ \E p \in Procs : PruningOf(p, x)]_vars

\* C12: after a start of the file variant from a missing or malformed
\* CHATS_FILE, no registration event and no broadcast ends in an error that
\* nothing catches.
C12_LoadFallsBackToEmpty == ~last.uncaught

\* C13: a broadcast with a message, entered on an empty registry and answered
\* 200, has made no send attempt, leaves the registry as it was and answers
\* with sentTo = 0 and totalChats = 0.
C13_EmptyRegistryBroadcast ==
  (/\ Broadcast(last)
   /\ last.body = [message |-> <<"m">>]
   /\ last.pre = <<>>
   /\ last.resp.status = 200)
  => /\ last.log = <<>>
     /\ last.post = last.pre
     /\ last.resp.body = [sentTo |-> 0, totalChats |-> 0]

\* C14: a broadcast whose body has no message, or an empty one, is answered
\* 400 having made no send attempt and no read of the registry, and leaves
\* the registry as it was, whatever the registry holds.
C14_Validation ==
  (/\ Broadcast(last)
   /\ last.body \in {[none |-> TRUE], [message |-> <<>>]})
  => /\ last.resp = [status |-> 400, body |-> ErrorBody]
     /\ last.log = <<>>
     /\ last.reads = 0
     /\ last.arr = <<>>
     /\ last.post = last.pre

C14_Witness ==
  /\ Broadcast(last)
  /\ last.body = [message |-> <<>>]
  /\ last.resp.status = 400
  /\ Len(last.pre) >= 2

\* C15: the attempts of a broadcast follow the order of its list; only the
\* latest attempt can be in flight, and only while the handler awaits that
\* send: while a removal is in progress, and once the response is out, no
\* attempt is open.
C15_SequentialSends ==
  /\ \A p \in Procs :
       loc[p].op = "report" =>
         /\ Len(loc[p].log) = loc[p].i
         /\ loc[p].i <= Len(loc[p].arr)
         /\ \A k \in 1..Len(loc[p].log) :
              /\ loc[p].log[k].id = loc[p].arr[k]
              /\ (loc[p].log[k].msg = Pending) <=> (k = loc[p].i /\ pc[p] = "send")
         /\ pc[p] \in {"rmGet", "rmSet"} =>
              kvPermanent(loc[p].log[loc[p].i].msg)
  /\ Broadcast(last) => \A k \in 1..Len(last.log) : last.log[k].msg # Pending

C15_Witness ==
  \E p \in Procs :
    /\ pc[p] = "send"
    /\ loc[p].i = 2
    /\ loc[p].log[1].msg # Sent
    /\ Permanent(loc[p].log[1].msg)
    /\ \E q \in Procs : q # p /\ pc[q] # "idle"

\* C16: when a registration with an allowed kind completes, every identifier
\* whose registration (allowed kind) completed while this one was in progress
\* and was in the registry then, is in the registry, provided no removal took
\* place while either was in progress.
C16_NoLostRegistration ==
  (/\ Registered(last)
   /\ allowedKind(last.kind)
   /\ ~last.uncaught
   /\ last.clean)
  => \A y \in last.seen : ArrIncludes(last.post, y)

\* C17: an identifier whose removal a broadcast has completed is absent from
\* the registry until a registration event for that identifier is handled.
C17_NoResurrection == \A y \in pruned : ~ArrIncludes(Registry, y)

\* C18: in the file variant a broadcast that went through the send loop and
\* answered 200 reports as totalChats the number of send attempts it made
\* and as sentTo the number of those that succeeded, also when the registry
\* was changed while one of its sends was awaited.
C18_AccountingUnderChange ==
  (/\ variant = "file"
   /\ Broadcast(last)
   /\ last.resp.status = 200
   /\ Len(last.log) > 0)
  => /\ last.resp.body.totalChats = Len(last.log)
     /\ last.resp.body.sentTo = Cardinality(Succeeded(last))
     /\ last.resp.body.sentTo <= last.resp.body.totalChats

C18_Witness ==
  /\ variant = "file"
  /\ Broadcast(last)
  /\ last.resp.status = 200
  /\ Len(last.log) > Len(last.pre)
  /\ Pruned(last) # {}

\* C19: every broadcast request that is being handled is eventually answered;
\* the handler leaves a request only by answering it with 400, 200 or 500,
\* and no send attempt of an answered request is open.
C19_AnsweredOnce ==
  /\ \A p \in Procs : (loc[p].op = "report") ~> (pc[p] = "idle")
  /\ [][\A p \in Procs :
          (pc[p] # "idle" /\ loc[p].op = "report" /\ pc'[p] = "idle")
          => /\ Broadcast(last')
             /\ last'.resp.status \in {200, 500}]_vars
  /\ [](Broadcast(last) =>
          /\ last.resp.status \in {400, 200, 500}
          /\ \A k \in 1..Len(last.log) : last.log[k].msg # Pending)

C19_Witness ==
  /\ Broadcast(last)
  /\ last.resp.status = 500
  /\ Len(last.log) = 1
  /\ \E p \in Procs : pc[p] # "idle"

=============================================================================
